---- MODULE Spec2Model ----
(***************************************************************************)
(* Election data engine of luchesar/izbori: the request cache (withCache,   *)
(* clearCache), the election table loader getElectionData, and the          *)
(* settlement-to-municipality rollup, modelled from src/src/utils/elections.ts *)
(***************************************************************************)
EXTENDS Integers, Sequences, FiniteSets, TLC

VARIABLES
    cache,      \* elections.ts:83  cache[key] = id of the promise stored under key, 0 = no entry
    comps,      \* the promises fetcher() has returned so far, in creation order
    calls,      \* the withCache calls made so far, in call order
    clears,     \* number of clearCache() calls made so far
    fails,      \* fails[key] = number of failure steps (rejections, catch handlers) on key so far
    fullData,   \* getElectionData: the parsed table (rows of the CSV)
    request,    \* getElectionData: the RegionDataRequest
    processed,  \* getElectionData: the returned record map
    phase,      \* position of the caller of a synchronous function: "input", then "done"
    placesData,         \* aggregateSettlementsToMunicipalities: the places of places.json
    settlementResults,  \* ... the settlement records, keyed by EKATTE code
    municipalityGeo,    \* ... the municipality features
    aggregated,         \* ... the returned list of features with electionData
    features,           \* mergeData / mergePlacesData: the features of the GeoJSON
    electionResults,    \* ... the records of getElectionData, by name or EKATTE code
    merged,             \* ... the returned list of features with electionData
    partyTotals,        \* top parties: the national party totals per election, latest first
    lastN,              \* ... the number n of recent elections asked for
    topRanked,          \* ... the returned ranking
    query,              \* searchRegions: the query, as its list of characters
    searchMunicipalities,   \* ... the municipalities argument
    searchPlaces,       \* ... the places argument
    searchResults,      \* ... the returned list
    selectedElections,  \* App: the selected election ids (state)
    electionsData,      \* App: the data map on display (state)
    appMunicipalities,  \* App: the municipalities on display (state `municipalities`)
    appPlaces,          \* App: the places on display (state `places`)
    loading,            \* App: the loading indicator (state)
    selectedRegion,     \* App: the region of the detail sheet, or none (state)
    loads               \* App: the runs of loadData started so far, in order

cacheVars == <<cache, comps, calls, clears, fails>>
dataVars == <<fullData, request, processed, phase>>
rollupVars == <<placesData, settlementResults, municipalityGeo, aggregated>>
mergeVars == <<features, electionResults, merged>>
statsVars == <<partyTotals, lastN, topRanked>>
searchVars == <<query, searchMunicipalities, searchPlaces, searchResults>>
appVars == <<selectedElections, electionsData, appMunicipalities, appPlaces, loading,
             selectedRegion, loads>>
vars == <<cache, comps, calls, clears, fails, fullData, request, processed, phase,
          placesData, settlementResults, municipalityGeo, aggregated,
          features, electionResults, merged, partyTotals, lastN, topRanked,
          query, searchMunicipalities, searchPlaces, searchResults,
          selectedElections, electionsData, appMunicipalities, appPlaces, loading,
          selectedRegion, loads>>

-----------------------------------------------------------------------------
(* Bounds of the model *)

MaxCalls == 3
MaxClears == 1
MaxRows == 2
MaxPlaces == 2
MaxFeatures == 2
MaxElections == 3

-----------------------------------------------------------------------------
(* JavaScript values as they appear in parsed rows (Papa.parse with        *)
(* dynamicTyping: numbers, strings, null for an empty cell, undefined for  *)
(* a missing column)                                                       *)

Num(n) == [t |-> "number", n |-> n]
Str(s) == [t |-> "string", s |-> s]
Undef == [t |-> "undefined"]
Null == [t |-> "null"]
NaN == [t |-> "NaN"]
Infinity == [t |-> "Infinity"]

\* typeof v === 'number'
IsNum(v) == v.t = "number"

\* JS truthiness: 0, NaN, "", null and undefined are falsy
Truthy(v) ==
    CASE v.t = "number" -> v.n # 0
      [] v.t = "string" -> v.s # ""
      [] v.t = "quotient" -> v.num # 0
      [] v.t = "Infinity" -> TRUE
      [] OTHER -> FALSE

\* a || b
Or(a, b) == IF Truthy(a) THEN a ELSE b

-----------------------------------------------------------------------------
(* Requests and cache keys *)

DATA_BASE_URL == "/assets/data"
EL_DATA_PATH == DATA_BASE_URL \o "/el_data"

NoRegion == << >>
NoParties == << >>

\* An election identifier is the text base \o tail; tail "-ns" / "-ep" is what
\* the regular expression of getElectionData recognises after a yyyy-mm-dd date.
\* regionId is a text given as its sequence of tokens: single digits, or a
\* chunk of non-digit text.  parties is the list the caller passes ([] and
\* undefined are both "no filter").
CacheRequests ==
    { [electionId |-> [base |-> "2021-04-04", tail |-> "-ns"], regionType |-> "municipality",
       regionId |-> NoRegion, parties |-> NoParties],
      [electionId |-> [base |-> "2021-04-04", tail |-> "-ns"], regionType |-> "municipality",
       regionId |-> <<"TestMun">>, parties |-> <<"Party A">>],
      [electionId |-> [base |-> "2024-06-09", tail |-> "-ep"], regionType |-> "municipality",
       regionId |-> NoRegion, parties |-> NoParties] }

\* const match = electionId.match(/^(\d{4}-\d{2}-\d{2})-(ns|ep)$/)
ElectionDate(e) == IF e.tail \in {"-ns", "-ep"} THEN e.base ELSE e.base \o e.tail
ElectionType(e) == IF e.tail = "-ep" THEN "ep" ELSE "ns"

Url(req) ==
    EL_DATA_PATH \o "/" \o ElectionDate(req.electionId) \o
        (IF req.regionType = "municipality"
            THEN ElectionType(req.electionId) \o "_mun.csv"
            ELSE ElectionType(req.electionId) \o ".csv")

\* A defect: the filters leak into the key
CacheKey_WithFilters(req) ==
    "election-data-" \o Url(req) \o (IF req.regionId = NoRegion THEN "" ELSE "?region")
        \o (IF req.parties = NoParties THEN "" ELSE "&parties")

\* const cacheKey = `election-data-${url}`
CacheKey(req) == "election-data-" \o Url(req)

Keys == { CacheKey(r) : r \in CacheRequests }

-----------------------------------------------------------------------------
(* getElectionData, step 2: filter and process the parsed rows *)

\* A row is the list of its cells in column order, each [c |-> column, v |-> value]
Cell(c, v) == [c |-> c, v |-> v]

HasCol(row, col) == \E i \in 1..Len(row) : row[i].c = col

\* row[col]: undefined when the row has no such property
Get(row, col) ==
    IF HasCol(row, col)
        THEN row[CHOOSE i \in 1..Len(row) : row[i].c = col].v
        ELSE Undef

Digit(d) ==
    CASE d = 0 -> "0" [] d = 1 -> "1" [] d = 2 -> "2" [] d = 3 -> "3" [] d = 4 -> "4"
      [] d = 5 -> "5" [] d = 6 -> "6" [] d = 7 -> "7" [] d = 8 -> "8" [] d = 9 -> "9"

RECURSIVE NatToString(_)
NatToString(n) == IF n < 10 THEN Digit(n) ELSE NatToString(n \div 10) \o Digit(n % 10)

\* String(v)
JsString(v) ==
    CASE v.t = "number" -> IF v.n < 0 THEN "-" \o NatToString(-v.n) ELSE NatToString(v.n)
      [] v.t = "string" -> v.s
      [] v.t = "undefined" -> "undefined"
      [] v.t = "null" -> "null"
      [] v.t = "NaN" -> "NaN"

\* s.padStart(n, '0')
RECURSIVE PadStart(_, _)
PadStart(s, n) == IF Len(s) >= n THEN s ELSE PadStart("0" \o s, n)

EKATTE_LENGTH == 5

DigitTokens == {"0", "1", "2", "3", "4", "5", "6", "7", "8", "9"}

DigitValue(d) == CHOOSE n \in 0..9 : Digit(n) = d

\* parseInt(text, 10) of a text given as tokens: the leading digits, NaN if none
RECURSIVE ParseDigits(_, _)
ParseDigits(tokens, acc) ==
    IF tokens = << >> \/ Head(tokens) \notin DigitTokens
        THEN acc
        ELSE ParseDigits(Tail(tokens), 10 * acc + DigitValue(Head(tokens)))

ParseInt(tokens) ==
    IF tokens = << >> \/ Head(tokens) \notin DigitTokens
        THEN NaN
        ELSE Num(ParseDigits(tokens, 0))

\* the text a token list stands for
RECURSIVE Text(_)
Text(tokens) == IF tokens = << >> THEN "" ELSE Head(tokens) \o Text(Tail(tokens))

\* a === b for a row value a and a string b
StrictEqualsString(a, b) == a.t = "string" /\ a.s = b

\* a == b for a row value a (number, null or undefined) and the number or NaN b
LooseEqualsNumber(a, b) ==
    CASE a.t = "number" -> b.t = "number" /\ a.n = b.n
      [] a.t \in {"undefined", "null", "NaN"} -> FALSE

\* a defect: the settlement id is compared as text with the requested code
FilterByRegion_TextCompare(rows, regionType, regionId) ==
    IF regionId = NoRegion THEN rows
    ELSE IF regionType = "municipality"
        THEN LET Keep(row) == \/ StrictEqualsString(Get(row, "nuts4"), Text(regionId))
                              \/ StrictEqualsString(Get(row, "municipality_name"), Text(regionId))
             IN SelectSeq(rows, Keep)
        ELSE LET Keep(row) == JsString(Get(row, "id")) = Text(regionId)
             IN SelectSeq(rows, Keep)

\* elections.ts:198-211
FilterByRegion(rows, regionType, regionId) ==
    IF regionId = NoRegion THEN rows
    ELSE IF regionType = "municipality"
        THEN LET Keep(row) == \/ StrictEqualsString(Get(row, "nuts4"), Text(regionId))
                              \/ StrictEqualsString(Get(row, "municipality_name"), Text(regionId))
             IN SelectSeq(rows, Keep)
        ELSE LET csvId == ParseInt(regionId)
                 Keep(row) == LooseEqualsNumber(Get(row, "id"), csvId)
             IN SelectSeq(rows, Keep)

\* a defect: the invalid-ballots column is not a metadata column
metaKeys_WithoutInvalid ==
    {"municipality_name", "region", "region_name", "n_stations", "total", "activity",
     "nuts4", "eligible_voters", "total_valid", "id"}

\* elections.ts:231   ("nevalidni" stands for the Cyrillic name of the
\* invalid-ballots column)
metaKeys ==
    {"municipality_name", "region", "region_name", "n_stations", "total", "activity",
     "nuts4", "eligible_voters", "total_valid", "id", "nevalidni"}

Includes(list, x) == \E i \in 1..Len(list) : list[i] = x

\* a defect: the code is preferred to the name
RowKey_CodeFirst(row, regionType) ==
    IF regionType = "municipality"
        THEN Or(Get(row, "nuts4"), Get(row, "municipality_name"))
        ELSE Str(PadStart(JsString(Get(row, "id")), EKATTE_LENGTH))

\* a defect: the settlement id is not padded
RowKey_Unpadded(row, regionType) ==
    IF regionType = "municipality"
        THEN Or(Get(row, "municipality_name"), Get(row, "nuts4"))
        ELSE Str(JsString(Get(row, "id")))

\* elections.ts:218-225  the identifier key of a row
RowKey(row, regionType) ==
    IF regionType = "municipality"
        THEN Or(Get(row, "municipality_name"), Get(row, "nuts4"))
        ELSE Str(PadStart(JsString(Get(row, "id")), EKATTE_LENGTH))

\* a defect: the party filter is not applied
PartyResults_NoFilter(row, parties) ==
    LET Keep(cell) == cell.c \notin metaKeys /\ IsNum(cell.v)
    IN SelectSeq(row, Keep)

\* elections.ts:230-240  the party columns of a row, in column order
PartyResults(row, parties) ==
    LET Keep(cell) ==
            /\ cell.c \notin metaKeys
            /\ IsNum(cell.v)
            /\ (parties = NoParties \/ Includes(parties, cell.c))
    IN SelectSeq(row, Keep)

\* a / b of two numbers, kept exact as the pair (numerator, denominator)
Quotient(a, b) == [t |-> "quotient", num |-> a.n, den |-> b.n]

\* elections.ts:244-258  the record built from a row
BuildRecord(row, key, parties) ==
    LET totalVotes == Or(Or(Get(row, "total"), Get(row, "total_valid")), Num(0))
        eligibleVoters == Or(Get(row, "eligible_voters"), Num(0))
        activity ==
            IF Get(row, "activity").t # "undefined"
                THEN Get(row, "activity")
                ELSE IF eligibleVoters.n > 0 THEN Quotient(totalVotes, eligibleVoters) ELSE Num(0)
    IN [id |-> key,
        total |-> totalVotes,
        results |-> PartyResults(row, parties),
        meta |-> [activity |-> activity, eligible |-> eligibleVoters]]

EmptyObject == [k \in {} |-> Undef]

\* processed[key] = value
SetProperty(obj, key, value) ==
    [k \in DOMAIN obj \cup {key} |-> IF k = key THEN value ELSE obj[k]]

\* elections.ts:227  if (!key) return
SkipRow(key) == ~Truthy(key)

\* elections.ts:214-261  data.forEach(row => ...)
ProcessRows(rows, regionType, parties) ==
    LET F[i \in 0..Len(rows)] ==
            IF i = 0 THEN EmptyObject
            ELSE LET key == RowKey(rows[i], regionType)
                 IN IF SkipRow(key)
                        THEN F[i - 1]
                        ELSE SetProperty(F[i - 1], JsString(key),
                                         BuildRecord(rows[i], JsString(key), parties))
    IN F[Len(rows)]

\* elections.ts:195-261  what getElectionData returns for the parsed table
GetElectionDataResult(rows, req) ==
    ProcessRows(FilterByRegion(rows, req.regionType, req.regionId),
                req.regionType, req.parties)

-----------------------------------------------------------------------------
(* The request cache: withCache and clearCache (elections.ts:83-102) *)

\* The tables Papa.parse may hand to `complete`
TableA ==
    << << Cell("municipality_name", Str("TestMun")), Cell("nuts4", Str("BG123")),
          Cell("total", Num(100)), Cell("Party A", Num(60)), Cell("Party B", Num(40)) >> >>

TableB ==
    << << Cell("municipality_name", Str("TestMun")), Cell("nuts4", Str("BG123")),
          Cell("total", Num(100)), Cell("Party A", Num(60)), Cell("Party B", Num(40)) >>,
       << Cell("municipality_name", Str("OtherMun")), Cell("nuts4", Str("BG456")),
          Cell("total", Num(150)), Cell("Party A", Num(100)), Cell("Party B", Num(50)) >> >>

ParsedTables == {TableA, TableB}

NoEntry == 0

\* if (cache[key]) return cache[key]
CacheHit(c, key) == c[key] # NoEntry

\* a defect: the pending promise is never stored
Install_Never(c, key, id) == c

\* cache[key] = promise
Install(c, key, id) == [c EXCEPT ![key] = id]

\* a defect: the failed promise stays in the cache
PurgeOnError_Keep(c, key) == c

\* delete cache[key]   (in the catch handler, whatever promise is stored there)
PurgeOnError(c, key) == [c EXCEPT ![key] = NoEntry]

\* a defect: clearCache forgets the entries that are still in flight
ClearAll_ResolvedOnly(c, cs) ==
    [k \in DOMAIN c |-> IF c[k] # NoEntry /\ cs[c[k]].status = "pending" THEN c[k] ELSE NoEntry]

\* for (const key in cache) delete cache[key]
ClearAll(c, cs) == [k \in DOMAIN c |-> NoEntry]

\* the earlier calls for the key whose error has been delivered to the caller
ObservedErrors(key) ==
    { i \in 1..Len(calls) : calls[i].key = key /\ calls[i].obs = "err" }

\* getElectionData(req) up to its await: withCache(cacheKey, fetcher).
\* The call record keeps what the call saw: the promise it was given, whether
\* fetcher was invoked for it, how many clearCache() calls and failure steps
\* preceded it, and the errors on this key already delivered to callers (a
\* caller that retries after an error is one of those).
GetElectionData(req) ==
    LET key == CacheKey(req)
        hit == CacheHit(cache, key)
        id == IF hit THEN cache[key] ELSE Len(comps) + 1
    IN /\ Len(calls) < MaxCalls
       /\ comps' = IF hit THEN comps
                   ELSE Append(comps, [key |-> key, status |-> "pending", val |-> << >>])
       /\ cache' = IF hit THEN cache ELSE Install(cache, key, id)
       /\ calls' = Append(calls, [req |-> req, key |-> key, comp |-> id, started |-> ~hit,
                                  epoch |-> clears, fepoch |-> fails[key],
                                  after |-> ObservedErrors(key),
                                  obs |-> "none", res |-> EmptyObject])
       /\ UNCHANGED <<clears, fails>>

\* Papa.parse calls `complete`: the promise of fetcher() resolves
FetcherResolves(c, table) ==
    /\ comps[c].status = "pending"
    /\ comps' = [comps EXCEPT ![c].status = "resolved", ![c].val = table]
    /\ UNCHANGED <<cache, calls, clears, fails>>

\* Papa.parse calls `error`: the promise of fetcher() rejects; its catch
\* handler is queued
FetcherRejects(c) ==
    /\ comps[c].status = "pending"
    /\ comps' = [comps EXCEPT ![c].status = "failing"]
    /\ fails' = [fails EXCEPT ![comps[c].key] = @ + 1]
    /\ UNCHANGED <<cache, calls, clears>>

\* .catch(err => { delete cache[key]; throw err; })
CatchHandler(c) ==
    /\ comps[c].status = "failing"
    /\ cache' = PurgeOnError(cache, comps[c].key)
    /\ comps' = [comps EXCEPT ![c].status = "rejected"]
    /\ fails' = [fails EXCEPT ![comps[c].key] = @ + 1]
    /\ UNCHANGED <<calls, clears>>

\* a defect: the region filter is applied to the cached array in place
CachedRowsAfter_FilteredInPlace(rows, req) == FilterByRegion(rows, req.regionType, req.regionId)

\* let data = fullData; data = data.filter(...): filter builds a new array and
\* forEach only reads the rows, so the array held by the cache stays as parsed
CachedRowsAfter(rows, req) == rows

\* The caller's await returns or throws: the rest of getElectionData runs
Continue(i) ==
    LET c == comps[calls[i].comp] IN
    /\ calls[i].obs = "none"
    /\ c.status \in {"resolved", "rejected"}
    /\ calls' = [calls EXCEPT
            ![i].obs = IF c.status = "resolved" THEN "ok" ELSE "err",
            ![i].res = IF c.status = "resolved"
                          THEN GetElectionDataResult(c.val, calls[i].req)
                          ELSE EmptyObject]
    /\ comps' = IF c.status = "resolved"
                   THEN [comps EXCEPT ![calls[i].comp].val = CachedRowsAfter(c.val, calls[i].req)]
                   ELSE comps
    /\ UNCHANGED <<cache, clears, fails>>

ClearCache ==
    /\ clears < MaxClears
    /\ cache' = ClearAll(cache, comps)
    /\ clears' = clears + 1
    /\ UNCHANGED <<comps, calls, fails>>

\* searchRegions not called
IdleSearch ==
    /\ query = << >>
    /\ searchMunicipalities = << >>
    /\ searchPlaces = << >>
    /\ searchResults = << >>

\* the App component not mounted
IdleApp ==
    /\ selectedElections = << >>
    /\ electionsData = << >>
    /\ appMunicipalities = << >>
    /\ appPlaces = << >>
    /\ loading = FALSE
    /\ selectedRegion = Null
    /\ loads = << >>

IdleStats ==
    /\ partyTotals = << >>
    /\ lastN = 0
    /\ topRanked = << >>

IdleMerge ==
    /\ features = << >>
    /\ electionResults = EmptyObject
    /\ merged = << >>

IdleRollup ==
    /\ placesData = << >>
    /\ settlementResults = EmptyObject
    /\ municipalityGeo = << >>
    /\ aggregated = << >>

IdleData ==
    /\ fullData = << >>
    /\ request = [electionId |-> [base |-> "", tail |-> ""], regionType |-> "municipality",
                  regionId |-> NoRegion, parties |-> NoParties]
    /\ processed = EmptyObject
    /\ phase = "idle"

Init ==
    /\ cache = [k \in Keys |-> NoEntry]
    /\ comps = << >>
    /\ calls = << >>
    /\ clears = 0
    /\ fails = [k \in Keys |-> 0]
    /\ IdleData
    /\ IdleRollup
    /\ IdleMerge
    /\ IdleStats
    /\ IdleSearch
    /\ IdleApp

Next ==
    \/ \E req \in CacheRequests : GetElectionData(req) /\ UNCHANGED <<dataVars, rollupVars, mergeVars, statsVars, searchVars, appVars>>
    \/ \E c \in 1..Len(comps), t \in ParsedTables :
            FetcherResolves(c, t) /\ UNCHANGED <<dataVars, rollupVars, mergeVars, statsVars, searchVars, appVars>>
    \/ \E c \in 1..Len(comps) : FetcherRejects(c) /\ UNCHANGED <<dataVars, rollupVars, mergeVars, statsVars, searchVars, appVars>>
    \/ \E c \in 1..Len(comps) : CatchHandler(c) /\ UNCHANGED <<dataVars, rollupVars, mergeVars, statsVars, searchVars, appVars>>
    \/ \E i \in 1..Len(calls) : Continue(i) /\ UNCHANGED <<dataVars, rollupVars, mergeVars, statsVars, searchVars, appVars>>
    \/ ClearCache /\ UNCHANGED <<dataVars, rollupVars, mergeVars, statsVars, searchVars, appVars>>

Spec == Init /\ [][Next]_vars

-----------------------------------------------------------------------------
(* Claims about the request cache *)

\* the step is a withCache call; it becomes call number NewCall
IsCall == Len(calls') = Len(calls) + 1
NewCall == Len(calls) + 1

\* what a caller whose await has returned must hold
Delivered(i) ==
    LET c == comps[calls[i].comp] IN
    /\ calls[i].obs = "ok" =>
            /\ c.status = "resolved"
            /\ calls[i].res = GetElectionDataResult(c.val, calls[i].req)
    /\ calls[i].obs = "err" => c.status = "rejected"

\* C1: single-flight.  A withCache(k) call made while the computation of an
\* earlier call for k is still pending, with no clearCache() between the two
\* calls, is given that same computation and does not invoke fetcher; and every
\* caller receives the outcome of the computation it was given.
C1_SingleFlight ==
    /\ [][ IsCall =>
            \A i \in 1..Len(calls) :
                ( /\ calls'[NewCall].key = calls[i].key
                  /\ calls[i].epoch = clears
                  /\ comps[calls[i].comp].status = "pending" )
                => ( /\ calls'[NewCall].comp = calls[i].comp
                     /\ ~calls'[NewCall].started ) ]_vars
    /\ [](\A i \in 1..Len(calls) : Delivered(i))

\* the calls made for key k, in call order
CallsFor(k) == SelectSeq([i \in 1..Len(calls) |-> i], LAMBDA i : calls[i].key = k)

Invocations(k) == { c \in 1..Len(comps) : comps[c].key = k }

\* C2: no negative caching.  If the first load for a key has failed (its error
\* was delivered) before the second load for the key is made, and the second
\* load's computation succeeds, then the reader has been invoked exactly twice
\* for the key, the cache holds the second computation, and every further load
\* is given it without invoking the reader (until a clearCache()).
C2_NoNegativeCaching ==
    \A k \in Keys :
        LET idx == CallsFor(k) IN
        ( /\ Len(idx) >= 2
          /\ idx[1] \in calls[idx[2]].after
          /\ comps[calls[idx[2]].comp].status = "resolved"
          /\ clears = calls[idx[2]].epoch )
        => ( /\ Cardinality(Invocations(k)) = 2
             /\ cache[k] = calls[idx[2]].comp
             /\ \A n \in 3..Len(idx) :
                    /\ calls[idx[n]].comp = calls[idx[2]].comp
                    /\ ~calls[idx[n]].started
                    /\ Delivered(idx[n]) )

C2_Witness ==
    \E k \in Keys :
        LET idx == CallsFor(k) IN
        /\ Len(idx) >= 3
        /\ idx[1] \in calls[idx[2]].after
        /\ comps[calls[idx[2]].comp].status = "resolved"
        /\ clears = calls[idx[2]].epoch
        /\ calls[idx[3]].obs = "ok"

\* C3: once the computation of a call for key k has resolved, every later
\* load for k made with no clearCache() since that call is given the same
\* resolved computation and does not invoke the reader.
C3_ResolvedStaysCached ==
    [][ IsCall =>
            \A i \in 1..Len(calls) :
                ( /\ calls'[NewCall].key = calls[i].key
                  /\ calls[i].epoch = clears
                  /\ comps[calls[i].comp].status = "resolved" )
                => ( /\ calls'[NewCall].comp = calls[i].comp
                     /\ ~calls'[NewCall].started ) ]_vars

\* C4 as stated: the failed entry is gone before a caller sees the error, and
\* a call made in reaction to a delivered error always starts a new computation.
C4_RetryAlwaysStarts ==
    /\ \A i \in 1..Len(calls) :
            calls[i].obs = "err" => cache[calls[i].key] # calls[i].comp
    /\ \A j \in 1..Len(calls) : calls[j].after # {} => calls[j].started

\* C4, amended: the failed entry is gone before a caller sees the error, and a
\* call made in reaction to a delivered error is never given the failed
\* computation: it is given one started after that failure (by itself, or by
\* another call that came first).
C4_RetryNeverGetsFailed ==
    /\ \A i \in 1..Len(calls) :
            calls[i].obs = "err" =>
                /\ comps[calls[i].comp].status = "rejected"
                /\ cache[calls[i].key] # calls[i].comp
    /\ \A j \in 1..Len(calls) : \A i \in calls[j].after :
            calls[j].comp > calls[i].comp

C4_Witness ==
    \E j \in 1..Len(calls) : calls[j].after # {} /\ calls[j].started

\* C5: requests for the same (electionId, regionType), whatever their regionId
\* and parties, with no failure on the key and no clearCache() between them,
\* share one parse: the later one is given the computation of the earlier one
\* and does not invoke Papa.parse.
C5_KeyIgnoresFilters ==
    \A i \in 1..Len(calls) : \A j \in (i + 1)..Len(calls) :
        ( /\ calls[i].req.electionId = calls[j].req.electionId
          /\ calls[i].req.regionType = calls[j].req.regionType
          /\ calls[i].epoch = calls[j].epoch
          /\ calls[i].fepoch = calls[j].fepoch )
        => ( /\ calls[j].comp = calls[i].comp
             /\ ~calls[j].started )

C5_Witness ==
    \E i \in 1..Len(calls) : \E j \in (i + 1)..Len(calls) :
        /\ calls[i].req.electionId = calls[j].req.electionId
        /\ calls[i].req.regionId # calls[j].req.regionId
        /\ calls[i].req.parties # calls[j].req.parties
        /\ calls[i].epoch = calls[j].epoch
        /\ calls[i].fepoch = calls[j].fepoch
        /\ calls[i].obs = "ok"
        /\ calls[j].obs = "ok"

\* C6: clearCache() leaves no entry for any key, whatever the entries' state;
\* and the first load for a key after a clearCache() invokes the computation.
C6_ClearRemovesAll ==
    [][ /\ clears' # clears => \A k \in Keys : cache'[k] = NoEntry
        /\ ( /\ IsCall
             /\ \A i \in 1..Len(calls) :
                    calls[i].key = calls'[NewCall].key => calls[i].epoch < clears )
           => calls'[NewCall].started ]_vars

C6_Witness ==
    \E i \in 1..Len(calls) : \E j \in (i + 1)..Len(calls) :
        /\ calls[i].key = calls[j].key
        /\ calls[i].epoch < calls[j].epoch
        /\ calls[j].started
        /\ comps[calls[i].comp].status = "pending"

\* the computations of key k that have neither resolved nor rejected
InFlight(k) == { c \in 1..Len(comps) : comps[c].key = k /\ comps[c].status = "pending" }

\* C24: at most one underlying computation per cache key is in flight at any
\* time, under every interleaving of calls, completions, failures and
\* clearCache() calls.
C24_OneInFlightPerKey ==
    \A k \in Keys : Cardinality(InFlight(k)) <= 1

\* the step is the catch handler of computation c
IsCatchHandlerOf(c) == comps[c].status = "failing" /\ comps'[c].status = "rejected"

\* C25: a failing computation removes only the cache entry it installed: when
\* the entry of its key holds a newer computation, the catch handler of the
\* older computation leaves that entry in the cache.
C25_FailureRemovesOwnEntryOnly ==
    [][ \A c \in 1..Len(comps) :
            ( /\ IsCatchHandlerOf(c)
              /\ cache[comps[c].key] # NoEntry
              /\ cache[comps[c].key] # c )
            => cache'[comps[c].key] = cache[comps[c].key] ]_vars

Unfiltered(req) == req.regionId = NoRegion /\ req.parties = NoParties

-----------------------------------------------------------------------------
(* getElectionData on a parsed table: the tables and requests explored *)

Optional(col, values) == {<< >>} \cup { << Cell(col, v) >> : v \in values }

\* rows of a *_mun.csv table: name and code may be missing or empty
MunicipalityRows ==
    { n \o c \o << Cell("total", Num(100)) >> \o a :
        n \in Optional("municipality_name", {Str(""), Str("TestMun"), Str("OtherMun")}),
        c \in Optional("nuts4", {Str(""), Str("BG123")}),
        a \in Optional("Party A", {Num(60)}) }

\* rows of a settlement table: the id cell may be missing or empty (null)
SettlementRows ==
    { i \o << Cell("total", Num(216)) >> \o a :
        i \in Optional("id", {Null, Num(0), Num(14), Num(69016), Num(123456)}),
        a \in Optional("Party A", {Num(40)}) }

TablesOf(rows) == UNION { [1..n -> rows] : n \in 0..MaxRows }

AnyElection == [base |-> "2024-10-27", tail |-> ""]

MunicipalityRequests ==
    { [electionId |-> AnyElection, regionType |-> "municipality", regionId |-> r, parties |-> p] :
        r \in {NoRegion, <<"TestMun">>, <<"BG123">>}, p \in {NoParties, <<"Party A">>} }

SettlementRequests ==
    { [electionId |-> AnyElection, regionType |-> "settlement", regionId |-> r, parties |-> p] :
        r \in {NoRegion, <<"0", "0", "0", "0", "0">>, <<"0", "0", "0", "1", "4">>,
               <<"6", "9", "0", "1", "6">>},
        p \in {NoParties} }

IdleCache ==
    /\ cache = [k \in Keys |-> NoEntry]
    /\ comps = << >>
    /\ calls = << >>
    /\ clears = 0
    /\ fails = [k \in Keys |-> 0]

InitData ==
    /\ IdleCache
    /\ IdleRollup
    /\ IdleMerge
    /\ IdleStats
    /\ IdleSearch
    /\ IdleApp
    /\ phase = "input"
    /\ processed = EmptyObject
    /\ \/ fullData \in TablesOf(MunicipalityRows) /\ request \in MunicipalityRequests
       \/ fullData \in TablesOf(SettlementRows) /\ request \in SettlementRequests

\* getElectionData after its await: filter, map, return
ProcessRequest ==
    /\ phase = "input"
    /\ processed' = GetElectionDataResult(fullData, request)
    /\ phase' = "done"
    /\ UNCHANGED <<fullData, request>>

NextData == ProcessRequest /\ UNCHANGED <<cacheVars, rollupVars, mergeVars, statsVars, searchVars, appVars>>

SpecData == InitData /\ [][NextData]_vars

\* Settlement tables of one row whose id is any integer up to MaxSettlementId
MaxSettlementId == 100100

InitKey ==
    /\ IdleCache
    /\ IdleRollup
    /\ IdleMerge
    /\ IdleStats
    /\ IdleSearch
    /\ IdleApp
    /\ phase = "input"
    /\ processed = EmptyObject
    /\ request = [electionId |-> AnyElection, regionType |-> "settlement",
                  regionId |-> NoRegion, parties |-> NoParties]
    /\ \E k \in 0..MaxSettlementId :
            fullData = << << Cell("id", Num(k)), Cell("total", Num(216)) >> >>

SpecKey == InitKey /\ [][NextData]_vars

-----------------------------------------------------------------------------
(* Claims about the keys of the records getElectionData builds *)

\* k as five decimal digits
ZeroPadded(k) ==
    Digit(k \div 10000) \o Digit((k \div 1000) % 10) \o Digit((k \div 100) % 10)
        \o Digit((k \div 10) % 10) \o Digit(k % 10)

\* C8: a settlement row whose id is an integer k, 0 <= k <= 99999, yields a
\* record under the 5-character key that is k zero-padded on the left, and the
\* record's id is that key.
C8_SettlementKeyPadded ==
    (phase = "done" /\ request.regionType = "settlement" /\ request.regionId = NoRegion) =>
        \A i \in 1..Len(fullData) :
            LET id == Get(fullData[i], "id") IN
            (id.t = "number" /\ id.n >= 0 /\ id.n <= 99999) =>
                /\ Len(ZeroPadded(id.n)) = 5
                /\ ZeroPadded(id.n) \in DOMAIN processed
                /\ processed[ZeroPadded(id.n)].id = ZeroPadded(id.n)

C8_Witness ==
    /\ phase = "done"
    /\ Get(fullData[1], "id") = Num(14)
    /\ DOMAIN processed = {"00014"}

NonEmpty(v) == v.t = "string" /\ v.s # ""

HasMunicipalityId(row) ==
    NonEmpty(Get(row, "nuts4")) \/ NonEmpty(Get(row, "municipality_name"))

\* the table's records are exactly those of the rows in `rows`, each stored
\* under KeyOf(row) (the last row of a key wins)
RecordsAreKeyedBy(rows, KeyOf(_)) ==
    /\ DOMAIN processed = { KeyOf(fullData[i]) : i \in rows }
    /\ \A i \in rows :
            LET same == { j \in rows : KeyOf(fullData[j]) = KeyOf(fullData[i]) }
                last == CHOOSE j \in same : \A h \in same : h <= j
            IN processed[KeyOf(fullData[i])] =
                    BuildRecord(fullData[last], KeyOf(fullData[i]), request.parties)

CodeFirstKey(row) ==
    IF NonEmpty(Get(row, "nuts4")) THEN Get(row, "nuts4").s
    ELSE Get(row, "municipality_name").s

NameFirstKey(row) ==
    IF NonEmpty(Get(row, "municipality_name")) THEN Get(row, "municipality_name").s
    ELSE Get(row, "nuts4").s

HasUsableId(row, regionType) ==
    IF regionType = "municipality"
        THEN HasMunicipalityId(row)
        ELSE Get(row, "id").t \notin {"undefined", "null"}

\* C10: the result holds a record for every row that has a usable identifier
\* and no record for a row that has none.
C10_RowsWithoutIdDropped ==
    (phase = "done" /\ request.regionId = NoRegion) =>
        DOMAIN processed =
            { JsString(RowKey(fullData[i], request.regionType)) :
                i \in { j \in 1..Len(fullData) : HasUsableId(fullData[j], request.regionType) } }

HasNumberId(row) == Get(row, "id").t = "number"

\* the rows of the table whose id is the integer k
RowsWithId(k) == { i \in 1..Len(fullData) : Get(fullData[i], "id") = Num(k) }

\* the integer ids that occur in the table
IdsInTable ==
    { Get(fullData[i], "id").n : i \in { j \in 1..Len(fullData) : HasNumberId(fullData[j]) } }

\* C15: for settlement granularity and an id k in 0..99999 that occurs in the
\* table, the request for the zero-padded code of k returns exactly one key,
\* that code, with the record built from the row with id k; rows with another
\* id, or none, contribute nothing.
C15_SettlementFilterRoundTrip ==
    (phase = "done" /\ request.regionType = "settlement") =>
        \A k \in IdsInTable :
            (k >= 0 /\ k <= 99999 /\ Text(request.regionId) = ZeroPadded(k)) =>
                /\ DOMAIN processed = {ZeroPadded(k)}
                /\ \E i \in RowsWithId(k) :
                        processed[ZeroPadded(k)] =
                            BuildRecord(fullData[i], ZeroPadded(k), request.parties)

C15_Witness ==
    /\ phase = "done"
    /\ request.regionType = "settlement"
    /\ Text(request.regionId) = "00014"
    /\ RowsWithId(14) # {}
    /\ RowsWithId(69016) # {}
    /\ DOMAIN processed = {"00014"}

-----------------------------------------------------------------------------
(* getElectionData on one settlement row: the columns a record is built from *)

\* a decimal fraction read from a cell, e.g. 0.283 = 283 / 1000
Fraction(num, den) == [t |-> "quotient", num |-> num, den |-> den]

\* settlement rows with id 14 whose other columns may be missing, empty
\* (null), zero, or not numeric
RecordRows ==
    { << Cell("id", Num(14)) >> \o r \o t \o tv \o ev \o ac \o a \o b \o inv \o note :
        r \in Optional("region_name", {Str("Plovdiv")}),
        t \in Optional("total", {Null, Num(0), Num(216)}),
        tv \in Optional("total_valid", {Num(0), Num(211)}),
        ev \in Optional("eligible_voters", {Num(0), Num(763)}),
        ac \in Optional("activity", {Null, Num(0), Fraction(283, 1000)}),
        a \in Optional("Party A", {Num(40)}),
        b \in Optional("Party B", {Num(9), Str("n/a")}),
        inv \in Optional("nevalidni", {Num(5)}),
        note \in Optional("note", {Str("recount")}) }

RecordRequests ==
    { [electionId |-> AnyElection, regionType |-> "settlement", regionId |-> NoRegion,
       parties |-> p] :
        p \in {NoParties, <<"Party A">>, <<"Party B", "Party C">>} }

InitRecord ==
    /\ IdleCache
    /\ IdleRollup
    /\ IdleMerge
    /\ IdleStats
    /\ IdleSearch
    /\ IdleApp
    /\ phase = "input"
    /\ processed = EmptyObject
    /\ request \in RecordRequests
    /\ \E row \in RecordRows : fullData = << row >>

SpecRecord == InitRecord /\ [][NextData]_vars

-----------------------------------------------------------------------------
(* Claims about the fields of a record *)

\* the record built from the only row of the table
TheRow == fullData[1]
TheRecord == processed["00014"]
RecordBuilt == phase = "done" /\ Len(fullData) = 1 /\ DOMAIN processed = {"00014"}

\* the row has a number in the column
HasNumber(row, col) == Get(row, col).t = "number"

\* C11: the record's total is the row's "total" when the row has one (0
\* included), otherwise the row's "total_valid" when the row has one,
\* otherwise 0.
C11_TotalPresentElseValid ==
    RecordBuilt =>
        TheRecord.total =
            IF HasNumber(TheRow, "total") THEN Get(TheRow, "total")
            ELSE IF HasNumber(TheRow, "total_valid") THEN Get(TheRow, "total_valid")
            ELSE Num(0)

\* the row supplies a turnout value: the column exists and the cell is not empty
HasTurnout(row) == Get(row, "activity").t \notin {"undefined", "null"}

IsNumeric(v) == v.t \in {"number", "quotient"}

\* C12: the record's turnout is the row's turnout value when the row supplies
\* one; when the column is missing or the cell is empty it is
\* total / eligible for eligible > 0 and 0 otherwise, hence always a number.
C12_TurnoutSuppliedOrComputed ==
    RecordBuilt =>
        /\ IsNumeric(TheRecord.meta.activity)
        /\ TheRecord.meta.activity =
                IF HasTurnout(TheRow) THEN Get(TheRow, "activity")
                ELSE IF TheRecord.meta.eligible.n > 0
                    THEN Quotient(TheRecord.total, TheRecord.meta.eligible)
                    ELSE Num(0)

\* the metadata columns: identifier, names, region, station count, total,
\* total valid, eligible voters, turnout, invalid ballots
MetadataColumns ==
    {"id", "nuts4", "municipality_name", "region_name", "region", "n_stations",
     "total", "total_valid", "eligible_voters", "activity", "nevalidni"}

\* the columns of the row that are not metadata and hold a number, as
\* <<column, value>> pairs
PartyColumns(row) ==
    { <<row[i].c, row[i].v>> : i \in { j \in 1..Len(row) :
                                        /\ row[j].c \notin MetadataColumns
                                        /\ row[j].v.t = "number" } }

\* a results list as the set of its <<party, votes>> pairs
Pairs(results) == { <<results[i].c, results[i].v>> : i \in 1..Len(results) }

NoDuplicateParty(results) ==
    \A i, j \in 1..Len(results) : results[i].c = results[j].c => i = j

\* C13: with no party filter the record's results hold exactly the row's
\* non-metadata columns with a numeric value, each with its value; metadata
\* columns (the invalid-ballots column included) and non-numeric columns
\* never appear.
C13_PartyVotesAreNumericNonMeta ==
    (RecordBuilt /\ request.parties = NoParties) =>
        /\ Pairs(TheRecord.results) = PartyColumns(TheRow)
        /\ NoDuplicateParty(TheRecord.results)

C13_Witness ==
    /\ RecordBuilt
    /\ request.parties = NoParties
    /\ Get(TheRow, "nevalidni") = Num(5)
    /\ Get(TheRow, "Party B") = Str("n/a")
    /\ Get(TheRow, "note") = Str("recount")
    /\ Get(TheRow, "total") = Num(216)
    /\ TheRecord.results = << Cell("Party A", Num(40)) >>

\* C14: with a non-empty party filter the record's results are the row's
\* party columns restricted to the named parties, votes unchanged; with no
\* filter (absent or empty list) all party columns are retained.
C14_PartyFilterRestricts ==
    RecordBuilt =>
        /\ NoDuplicateParty(TheRecord.results)
        /\ Pairs(TheRecord.results) =
                IF request.parties = NoParties THEN PartyColumns(TheRow)
                ELSE { pv \in PartyColumns(TheRow) : Includes(request.parties, pv[1]) }

C14_Witness ==
    /\ RecordBuilt
    /\ request.parties = <<"Party B", "Party C">>
    /\ Get(TheRow, "Party A") = Num(40)
    /\ Get(TheRow, "Party B") = Num(9)
    /\ TheRecord.results = << Cell("Party B", Num(9)) >>

-----------------------------------------------------------------------------
(* aggregateSettlementsToMunicipalities: the settlement-to-municipality rollup *)
(* elections.ts:372-438, and its later revision part_002:710-774             *)

\* elections.ts:380-386  byMunicipality.get(munName) || []
PlacesOf(places, munName) == SelectSeq(places, LAMBDA place : place.obshtina = munName)

\* electionData.meta?.eligible
MetaEligible(electionData) ==
    IF "eligible" \in DOMAIN electionData.meta THEN electionData.meta.eligible ELSE Undef

\* aggregatedParties[party] = (aggregatedParties[party] || 0) + votes
AddVotes(agg, party, votes) ==
    IF \E i \in 1..Len(agg) : agg[i].party = party
        THEN [i \in 1..Len(agg) |->
                IF agg[i].party = party
                    THEN [party |-> party, votes |-> agg[i].votes + votes]
                    ELSE agg[i]]
        ELSE Append(agg, [party |-> party, votes |-> votes])

\* elections.ts:407-409  Object.entries(electionData.results).forEach(...)
RECURSIVE AddAllVotes(_, _)
AddAllVotes(agg, entries) ==
    IF entries = << >> THEN agg
    ELSE AddAllVotes(AddVotes(agg, Head(entries).c, Head(entries).v.n), Tail(entries))

\* a defect: a settlement's eligible voters are not added
AddPlace_NoEligible(sums, electionData) ==
    [totalVotes |-> sums.totalVotes + Or(electionData.total, Num(0)).n,
     totalEligible |-> sums.totalEligible,
     parties |-> AddAllVotes(sums.parties, electionData.results)]

\* elections.ts:401-410  one settlement's record added to the running sums
AddPlace(sums, electionData) ==
    [totalVotes |-> sums.totalVotes + Or(electionData.total, Num(0)).n,
     totalEligible |-> sums.totalEligible + Or(MetaEligible(electionData), Num(0)).n,
     parties |-> AddAllVotes(sums.parties, electionData.results)]

\* elections.ts:394-411  placesInMun.forEach(place => ...)
SumPlaces(placesInMun, results) ==
    LET F[i \in 0..Len(placesInMun)] ==
            IF i = 0 THEN [totalVotes |-> 0, totalEligible |-> 0, parties |-> << >>]
            ELSE IF placesInMun[i].ekatte \in DOMAIN results
                THEN AddPlace(F[i - 1], results[placesInMun[i].ekatte])
                ELSE F[i - 1]
    IN F[Len(placesInMun)]

\* a defect: the entry goes in front of the entries with the same votes
RECURSIVE InsertByVotes_BeforeEqual(_, _)
InsertByVotes_BeforeEqual(sorted, entry) ==
    IF sorted = << >> THEN << entry >>
    ELSE IF Head(sorted).votes > entry.votes
        THEN << Head(sorted) >> \o InsertByVotes_BeforeEqual(Tail(sorted), entry)
        ELSE << entry >> \o sorted

\* entry put into a list kept in non-increasing order of votes, behind the
\* entries with the same votes
RECURSIVE InsertByVotes(_, _)
InsertByVotes(sorted, entry) ==
    IF sorted = << >> THEN << entry >>
    ELSE IF Head(sorted).votes >= entry.votes
        THEN << Head(sorted) >> \o InsertByVotes(Tail(sorted), entry)
        ELSE << entry >> \o sorted

\* .sort((a, b) => b.votes - a.votes)   (Array.prototype.sort is stable)
SortByVotes(list) ==
    LET F[i \in 0..Len(list)] ==
            IF i = 0 THEN << >> ELSE InsertByVotes(F[i - 1], list[i])
    IN F[Len(list)]

\* (votes / total) * 100 for votes >= 0, kept exact; a division by 0 gives
\* NaN (0 / 0) or Infinity
Percentage(votes, total) ==
    IF total = 0
        THEN IF votes = 0 THEN NaN ELSE Infinity
        ELSE [t |-> "quotient", num |-> votes * 100, den |-> total]

\* elections.ts:416-422
TopParties(parties, totalVotes) ==
    SortByVotes([i \in 1..Len(parties) |->
        [party |-> parties[i].party, votes |-> parties[i].votes,
         percentage |-> Percentage(parties[i].votes, totalVotes)]])

\* const activity = totalEligible > 0 ? totalVotes / totalEligible : 0
Activity(totalVotes, totalEligible) ==
    IF totalEligible > 0
        THEN [t |-> "quotient", num |-> totalVotes, den |-> totalEligible]
        ELSE Num(0)

\* a defect: a municipality without votes gets an entry of zeros
AggregateFeature_AlwaysEntry(feature, places, results) ==
    LET sums == SumPlaces(PlacesOf(places, feature.name), results) IN
    [name |-> feature.name,
     electionData |->
        [t |-> "object",
         totalVotes |-> sums.totalVotes,
         activity |-> Activity(sums.totalVotes, sums.totalEligible),
         topParties |-> TopParties(sums.parties, sums.totalVotes)]]

\* elections.ts:389-437  the feature with its electionData
AggregateFeature(feature, places, results) ==
    LET sums == SumPlaces(PlacesOf(places, feature.name), results) IN
    [name |-> feature.name,
     electionData |->
        IF sums.totalVotes > 0
            THEN [t |-> "object",
                  totalVotes |-> sums.totalVotes,
                  activity |-> Activity(sums.totalVotes, sums.totalEligible),
                  topParties |-> TopParties(sums.parties, sums.totalVotes)]
            ELSE Undef]

\* elections.ts:372-438
AggregateSettlementsToMunicipalities(places, results, geo) ==
    [i \in 1..Len(geo) |-> AggregateFeature(geo[i], places, results)]

\* The capital: the name of the municipality feature and the name the places
\* carry (the source has them in Cyrillic)
CapitalFeatureName == "Stolichna obshtina"
CapitalPlaceName == "Stolichna"

\* part_002:727-728
LookupName(munName) == IF munName = CapitalFeatureName THEN CapitalPlaceName ELSE munName

\* part_002:725-773  the revision that maps the capital's name and returns eligibleVoters
AggregateFeatureRev(feature, places, results) ==
    LET sums == SumPlaces(PlacesOf(places, LookupName(feature.name)), results) IN
    [name |-> feature.name,
     electionData |->
        IF sums.totalVotes > 0
            THEN [t |-> "object",
                  totalVotes |-> sums.totalVotes,
                  activity |-> Activity(sums.totalVotes, sums.totalEligible),
                  eligibleVoters |-> sums.totalEligible,
                  topParties |-> TopParties(sums.parties, sums.totalVotes)]
            ELSE Undef]

\* part_002:710-774
AggregateSettlementsToMunicipalitiesRev(places, results, geo) ==
    [i \in 1..Len(geo) |-> AggregateFeatureRev(geo[i], places, results)]

\* The inputs explored

Obshtinas == {"M", "N", CapitalPlaceName}
Ekattes == {"00014", "69016"}
FeatureNames == {"M", "N", CapitalFeatureName}

Places == [obshtina : Obshtinas, ekatte : Ekattes]

Votes(a, b) == << Cell("A", Num(a)), Cell("B", Num(b)) >>

\* the records a settlement may have: as getElectionData builds them, and one
\* without meta
SettlementRecords(e) ==
    { [id |-> e, total |-> Num(100), results |-> Votes(60, 40),
       meta |-> [activity |-> Num(0), eligible |-> Num(200)]],
      [id |-> e, total |-> Num(200), results |-> Votes(140, 60),
       meta |-> [activity |-> Num(0), eligible |-> Num(300)]],
      [id |-> e, total |-> Num(50), results |-> << Cell("B", Num(50)) >>, meta |-> Undef],
      [id |-> e, total |-> Num(0), results |-> << >>,
       meta |-> [activity |-> Num(0), eligible |-> Num(0)]] }

SettlementResultMaps ==
    UNION { { f \in [S -> UNION { SettlementRecords(e) : e \in S }] :
                \A e \in S : f[e] \in SettlementRecords(e) } : S \in SUBSET Ekattes }

InitRollup ==
    /\ IdleCache
    /\ IdleMerge
    /\ IdleStats
    /\ IdleSearch
    /\ IdleApp
    /\ fullData = << >>
    /\ request = [electionId |-> [base |-> "", tail |-> ""], regionType |-> "municipality",
                  regionId |-> NoRegion, parties |-> NoParties]
    /\ processed = EmptyObject
    /\ phase = "input"
    /\ placesData \in UNION { [1..n -> Places] : n \in 0..MaxPlaces }
    /\ settlementResults \in SettlementResultMaps
    /\ municipalityGeo \in UNION { [1..n -> [name : FeatureNames]] : n \in 0..MaxFeatures }
    /\ aggregated = << >>

Aggregate ==
    /\ phase = "input"
    /\ aggregated' =
            AggregateSettlementsToMunicipalities(placesData, settlementResults, municipalityGeo)
    /\ phase' = "done"
    /\ UNCHANGED <<placesData, settlementResults, municipalityGeo>>

AggregateRev ==
    /\ phase = "input"
    /\ aggregated' =
            AggregateSettlementsToMunicipalitiesRev(placesData, settlementResults, municipalityGeo)
    /\ phase' = "doneRev"
    /\ UNCHANGED <<placesData, settlementResults, municipalityGeo>>

NextRollup ==
    \/ Aggregate /\ UNCHANGED <<cacheVars, fullData, request, processed, mergeVars, statsVars, searchVars, appVars>>
    \/ AggregateRev /\ UNCHANGED <<cacheVars, fullData, request, processed, mergeVars, statsVars, searchVars, appVars>>

SpecRollup == InitRollup /\ [][NextRollup]_vars

-----------------------------------------------------------------------------
(* Claims about the rollup *)

SumOver(S, F(_)) ==
    LET G[T \in SUBSET S] ==
            IF T = {} THEN 0
            ELSE LET x == CHOOSE y \in T : TRUE IN F(x) + G[T \ {x}]
    IN G[S]

\* the places grouped under the municipality called munName that have a record
Contributors(munName) ==
    { p \in 1..Len(placesData) :
        /\ placesData[p].obshtina = munName
        /\ placesData[p].ekatte \in DOMAIN settlementResults }

RecordOf(p) == settlementResults[placesData[p].ekatte]

TotalOf(p) == IF RecordOf(p).total.t = "number" THEN RecordOf(p).total.n ELSE 0

EligibleOf(p) ==
    IF "eligible" \notin DOMAIN RecordOf(p).meta THEN 0
    ELSE IF RecordOf(p).meta.eligible.t = "number" THEN RecordOf(p).meta.eligible.n ELSE 0

PartiesOf(p) == { RecordOf(p).results[i].c : i \in 1..Len(RecordOf(p).results) }

VotesOf(p, party) ==
    LET r == RecordOf(p).results IN
    IF party \in PartiesOf(p)
        THEN r[CHOOSE i \in 1..Len(r) : r[i].c = party].v.n
        ELSE 0

\* the aggregate ed is the sum of the records of the places in `group`
IsRollupOf(ed, group, withEligible) ==
    LET total == SumOver(group, TotalOf)
        eligible == SumOver(group, EligibleOf)
        parties == UNION { PartiesOf(p) : p \in group }
    IN IF total > 0
        THEN /\ ed.t = "object"
             /\ ed.totalVotes = total
             /\ withEligible => ed.eligibleVoters = eligible
             /\ IF eligible = 0
                    THEN ed.activity.t = "number" /\ ed.activity.n = 0
                    ELSE /\ ed.activity.t = "quotient"
                         /\ ed.activity.den # 0
                         /\ ed.activity.num * eligible = total * ed.activity.den
             /\ Len(ed.topParties) = Cardinality(parties)
             /\ { ed.topParties[j].party : j \in 1..Len(ed.topParties) } = parties
             /\ \A j \in 1..Len(ed.topParties) :
                    ed.topParties[j].votes =
                        SumOver(group, LAMBDA p : VotesOf(p, ed.topParties[j].party))
        ELSE ed.t = "undefined"

GroupName(i) ==
    IF phase = "doneRev" THEN LookupName(municipalityGeo[i].name) ELSE municipalityGeo[i].name

Aggregated == phase \in {"done", "doneRev"}

\* totalVotes of output municipality i (0 when it has no electionData)
OutputTotal(i) ==
    IF aggregated[i].electionData.t = "object" THEN aggregated[i].electionData.totalVotes ELSE 0

\* the votes of the party in output municipality i
OutputVotes(i, party) ==
    LET ed == aggregated[i].electionData IN
    IF ed.t # "object" THEN 0
    ELSE SumOver({ j \in 1..Len(ed.topParties) : ed.topParties[j].party = party },
                 LAMBDA j : ed.topParties[j].votes)

RecordTotal(e) ==
    IF settlementResults[e].total.t = "number" THEN settlementResults[e].total.n ELSE 0

RecordVotes(e, party) ==
    LET r == settlementResults[e].results IN
    SumOver({ j \in 1..Len(r) : r[j].c = party }, LAMBDA j : r[j].v.n)

\* C28: vote conservation.  Each settlement record is counted at most once
\* over the whole output: the totalVotes of all output municipalities sum to
\* at most the sum of the totals of all settlement records, and likewise the
\* votes of each party.
C28_VotesAreConserved ==
    Aggregated =>
        /\ SumOver(1..Len(aggregated), OutputTotal)
                <= SumOver(DOMAIN settlementResults, RecordTotal)
        /\ \A party \in {"A", "B"} :
                SumOver(1..Len(aggregated), LAMBDA i : OutputVotes(i, party))
                    <= SumOver(DOMAIN settlementResults, LAMBDA e : RecordVotes(e, party))

\* what the same request returns without its region filter
UnfilteredResult ==
    GetElectionDataResult(fullData, [request EXCEPT !.regionId = NoRegion])

\* C27: a regionId-filtered result is a restriction of the unfiltered result
\* of the same election, granularity and party filter: each of its keys is a
\* key of the unfiltered result and maps to an identical record, also for
\* tables in which several rows share a name, code or id.
C27_FilteredIsRestrictionOfUnfiltered ==
    (phase = "done" /\ request.regionId # NoRegion) =>
        \A k \in DOMAIN processed :
            /\ k \in DOMAIN UnfilteredResult
            /\ UnfilteredResult[k] = processed[k]

\* C16: a municipality with no contributing settlement record (hence zero
\* total votes) gets no aggregated result: its electionData is absent, not an
\* entry of zeros.
C16_EmptyGroupHasNoEntry ==
    Aggregated =>
        \A i \in 1..Len(aggregated) :
            Contributors(GroupName(i)) = {} => aggregated[i].electionData = Undef

C16_Witness ==
    /\ phase = "done"
    /\ Len(aggregated) = 2
    /\ Contributors(GroupName(1)) # {}
    /\ aggregated[1].electionData.t = "object"
    /\ Contributors(GroupName(2)) = {}
    /\ aggregated[2].electionData = Undef
    /\ settlementResults # EmptyObject

-----------------------------------------------------------------------------
(* mergeData and mergePlacesData: features joined with the election records *)
(* elections.ts:288-361                                                      *)

\* a text given as its tokens (single digits, ".", or a chunk of other text)
StrOf(tokens) == [t |-> "string", s |-> Text(tokens), tokens |-> tokens]

RECURSIVE LeadingDigits(_)
LeadingDigits(tokens) ==
    IF tokens = << >> \/ Head(tokens) \notin DigitTokens
        THEN << >>
        ELSE << Head(tokens) >> \o LeadingDigits(Tail(tokens))

RECURSIVE Pow10(_)
Pow10(k) == IF k = 0 THEN 1 ELSE 10 * Pow10(k - 1)

\* parseFloat(text) of an unsigned decimal text: the leading digits and an
\* optional fraction, NaN if the text starts with neither
ParseFloat(tokens) ==
    LET int == LeadingDigits(tokens)
        rest == SubSeq(tokens, Len(int) + 1, Len(tokens))
        frac == IF rest # << >> /\ Head(rest) = "." THEN LeadingDigits(Tail(rest)) ELSE << >>
    IN IF int = << >> /\ frac = << >> THEN NaN
       ELSE IF frac = << >> THEN Num(ParseDigits(int, 0))
       ELSE [t |-> "quotient",
             num |-> ParseDigits(int, 0) * Pow10(Len(frac)) + ParseDigits(frac, 0),
             den |-> Pow10(Len(frac))]

\* a ?? b
Coalesce(a, b) == IF a.t \in {"undefined", "null"} THEN b ELSE a

\* data.meta?.activity
MetaActivity(data) ==
    IF "activity" \in DOMAIN data.meta THEN data.meta.activity ELSE Undef

\* data.activity (the older record format)
OwnActivity(data) == IF "activity" \in DOMAIN data THEN data.activity ELSE Undef

\* elections.ts:305-306, 345-346
MergedActivity(data) ==
    LET activityVal == Coalesce(MetaActivity(data), OwnActivity(data))
    IN IF activityVal.t = "string"
        THEN ParseFloat(activityVal.tokens)
        ELSE Or(activityVal, Num(0))

\* elections.ts:299-301, 341-343  the ranked party list of a record
RankedParties(data) ==
    SortByVotes([i \in 1..Len(data.results) |->
        [party |-> data.results[i].c, votes |-> data.results[i].v.n,
         percentage |-> Percentage(data.results[i].v.n, data.total.n)]])

\* elections.ts:296-313, 338-353  the summary attached to a feature
Summary(results, key) ==
    IF key \in DOMAIN results
        THEN [t |-> "object",
              totalVotes |-> results[key].total,
              activity |-> MergedActivity(results[key]),
              topParties |-> RankedParties(results[key])]
        ELSE Undef

\* { ...feature, electionData }
WithElectionData(feature, electionData) ==
    [properties |-> feature.properties, geometry |-> feature.geometry,
     electionData |-> electionData]

\* elections.ts:288-320
MergeData(geo, results) ==
    [i \in 1..Len(geo) |-> WithElectionData(geo[i], Summary(results, geo[i].properties.name))]

\* a defect: features without a record are left out
MergePlacesData_OnlyFound(fs, results) ==
    LET found == SelectSeq(fs, LAMBDA f : f.properties.ekatte \in DOMAIN results)
    IN [i \in 1..Len(found) |->
            WithElectionData(found[i], Summary(results, found[i].properties.ekatte))]

\* elections.ts:327-361   (fs is placesGeoJSON.features || placesGeoJSON)
MergePlacesData(fs, results) ==
    [i \in 1..Len(fs) |-> WithElectionData(fs[i], Summary(results, fs[i].properties.ekatte))]

\* The inputs explored

MergeNames == {"M", "N"}
MergeEkattes == {"00014", "69016"}
Geometries == {"g1", "g2"}

GeoFeatures == [properties : [name : MergeNames, ekatte : MergeEkattes], geometry : Geometries]

\* the records of a results map: records of getElectionData with a supplied
\* turnout, with an empty turnout cell, with equal votes, with total 0, and a
\* record of the older format whose activity is a text
MergeRecords(k) ==
    { [id |-> k, total |-> Num(100), results |-> Votes(60, 40),
       meta |-> [activity |-> Fraction(1, 2), eligible |-> Num(200)]],
      [id |-> k, total |-> Num(100),
       results |-> << Cell("B", Num(30)), Cell("C", Num(40)), Cell("A", Num(30)) >>,
       meta |-> [activity |-> Null, eligible |-> Num(0)]],
      [id |-> k, total |-> Num(0), results |-> Votes(0, 5),
       meta |-> [activity |-> Num(0), eligible |-> Num(0)]],
      [id |-> k, total |-> Num(200), results |-> Votes(60, 140), meta |-> Undef,
       activity |-> StrOf(<<"0", ".", "5">>)] }

ResultKeys == {"M", "00014"}

MergeResultMaps ==
    UNION { { f \in [S -> UNION { MergeRecords(k) : k \in S }] :
                \A k \in S : f[k] \in MergeRecords(k) } : S \in SUBSET ResultKeys }

InitMerge ==
    /\ IdleCache
    /\ IdleStats
    /\ IdleSearch
    /\ IdleApp
    /\ IdleData
    /\ IdleRollup
    /\ features \in UNION { [1..n -> GeoFeatures] : n \in 0..MaxFeatures }
    /\ electionResults \in MergeResultMaps
    /\ merged = << >>

Merge ==
    /\ phase = "idle"
    /\ merged' = MergeData(features, electionResults)
    /\ phase' = "merged"
    /\ UNCHANGED <<features, electionResults, fullData, request, processed>>

MergePlaces ==
    /\ phase = "idle"
    /\ merged' = MergePlacesData(features, electionResults)
    /\ phase' = "mergedPlaces"
    /\ UNCHANGED <<features, electionResults, fullData, request, processed>>

NextMerge ==
    \/ Merge /\ UNCHANGED <<cacheVars, rollupVars, statsVars, searchVars, appVars>>
    \/ MergePlaces /\ UNCHANGED <<cacheVars, rollupVars, statsVars, searchVars, appVars>>

SpecMerge == InitMerge /\ [][NextMerge]_vars

-----------------------------------------------------------------------------
(* Claims about the merged features *)

Merged == phase \in {"merged", "mergedPlaces"}

\* the identifier by which feature i is looked up
MergeKey(i) ==
    IF phase = "merged" THEN features[i].properties.name ELSE features[i].properties.ekatte

HasSummary(i) == merged[i].electionData.t = "object"

\* C17: in a ranked party list every entry's percentage is
\* (votes / total) * 100, and 0 when total is 0; it is never NaN or Infinity.
C17_PercentageNeverDividesByZero ==
    Merged =>
        \A i \in 1..Len(merged) : HasSummary(i) =>
            LET total == electionResults[MergeKey(i)].total.n
                list == merged[i].electionData.topParties
            IN \A j \in 1..Len(list) :
                    /\ list[j].percentage.t \notin {"NaN", "Infinity"}
                    /\ list[j].percentage =
                            IF total = 0 THEN Num(0)
                            ELSE [t |-> "quotient", num |-> list[j].votes * 100, den |-> total]

\* position of the party in the results of a record
IndexOfParty(results, party) == CHOOSE i \in 1..Len(results) : results[i].c = party

\* C18: a ranked party list holds the parties of the record with their votes,
\* in non-increasing order of votes, parties with equal votes in the order
\* of the record's results.
C18_RankedByVotesStable ==
    Merged =>
        \A i \in 1..Len(merged) : HasSummary(i) =>
            LET results == electionResults[MergeKey(i)].results
                list == merged[i].electionData.topParties
            IN /\ Len(list) = Len(results)
               /\ \A j \in 1..Len(list) :
                    \E r \in 1..Len(results) :
                        results[r].c = list[j].party /\ results[r].v.n = list[j].votes
               /\ \A j, k \in 1..Len(list) : j < k =>
                    /\ list[j].votes >= list[k].votes
                    /\ list[j].votes = list[k].votes =>
                            IndexOfParty(results, list[j].party)
                                < IndexOfParty(results, list[k].party)

C18_Witness ==
    /\ phase = "mergedPlaces"
    /\ Len(merged) >= 1
    /\ HasSummary(1)
    /\ electionResults[MergeKey(1)].results =
            << Cell("B", Num(30)), Cell("C", Num(40)), Cell("A", Num(30)) >>
    /\ [j \in 1..3 |-> merged[1].electionData.topParties[j].party] = <<"C", "B", "A">>

-----------------------------------------------------------------------------
(* getTopPartiesFromLastNElections: the ranking over the last n elections   *)
(* (part_002:828-832 asks the server; the sum and the ranking follow the    *)
(* specification's cross-election rollup)                                    *)

\* the first n elements of a list, all of them if it has fewer
FirstN(list, n) == SubSeq(list, 1, IF n < Len(list) THEN n ELSE Len(list))

\* the votes per party summed over the elections, parties in first-seen order
SumAcross(elections) ==
    LET F[i \in 0..Len(elections)] ==
            IF i = 0 THEN << >> ELSE AddAllVotes(F[i - 1], elections[i])
    IN F[Len(elections)]

\* a defect: only the parties of the most recent election are ranked
RollupAcrossElections_LatestParties(totals, n) ==
    LET recent == FirstN(totals, n)
        latest == IF recent = << >> THEN << >> ELSE AddAllVotes(<< >>, recent[1])
    IN SortByVotes(SelectSeq(SumAcross(recent),
            LAMBDA e : \E j \in 1..Len(latest) : latest[j].party = e.party))

\* the parties of the n most recent elections ranked by their summed votes
RollupAcrossElections(totals, n) == SortByVotes(SumAcross(FirstN(totals, n)))

\* The inputs explored

PartyTotals ==
    { << Cell("A", Num(100)), Cell("B", Num(50)) >>,
      << Cell("A", Num(50)), Cell("B", Num(50)), Cell("C", Num(200)) >>,
      << Cell("A", Num(50)), Cell("D", Num(500)) >>,
      << Cell("B", Num(100)), Cell("A", Num(100)) >>,
      << >> }

InitTop ==
    /\ IdleCache
    /\ IdleSearch
    /\ IdleApp
    /\ IdleData
    /\ IdleRollup
    /\ IdleMerge
    /\ partyTotals \in UNION { [1..k -> PartyTotals] : k \in 0..MaxElections }
    /\ lastN \in 0..MaxElections
    /\ topRanked = << >>

GetTopPartiesFromLastNElections ==
    /\ phase = "idle"
    /\ topRanked' = RollupAcrossElections(partyTotals, lastN)
    /\ phase' = "ranked"
    /\ UNCHANGED <<partyTotals, lastN, fullData, request, processed>>

NextTop ==
    GetTopPartiesFromLastNElections
        /\ UNCHANGED <<cacheVars, rollupVars, mergeVars, searchVars, appVars>>

SpecTop == InitTop /\ [][NextTop]_vars

\* the elections that count: the lastN most recent ones
Counted == 1..(IF lastN < Len(partyTotals) THEN lastN ELSE Len(partyTotals))

PartiesIn(e) == { partyTotals[e][i].c : i \in 1..Len(partyTotals[e]) }

VotesIn(e, party) ==
    IF party \in PartiesIn(e)
        THEN partyTotals[e][CHOOSE i \in 1..Len(partyTotals[e]) :
                                partyTotals[e][i].c = party].v.n
        ELSE 0

\* C20: the ranking lists every party that appears in at least one of the
\* last N elections, once, with its votes summed over those elections
\* (a partial sum for a party absent from some), in non-increasing order of
\* the summed votes.
C20_CrossElectionRanking ==
    phase = "ranked" =>
        /\ { topRanked[j].party : j \in 1..Len(topRanked) } = UNION { PartiesIn(e) : e \in Counted }
        /\ \A j, k \in 1..Len(topRanked) : topRanked[j].party = topRanked[k].party => j = k
        /\ \A j \in 1..Len(topRanked) :
                topRanked[j].votes = SumOver(Counted, LAMBDA e : VotesIn(e, topRanked[j].party))
        /\ \A j, k \in 1..Len(topRanked) : j < k => topRanked[j].votes >= topRanked[k].votes

\* the example: E1 {A:100,B:50}, E2 {A:50,B:50,C:200}, N = 2 give [C, A, B]
C20_Witness ==
    /\ phase = "ranked"
    /\ lastN = 2
    /\ partyTotals = << << Cell("A", Num(100)), Cell("B", Num(50)) >>,
                        << Cell("A", Num(50)), Cell("B", Num(50)), Cell("C", Num(200)) >> >>
    /\ topRanked = << [party |-> "C", votes |-> 200], [party |-> "A", votes |-> 150],
                      [party |-> "B", votes |-> 100] >>

-----------------------------------------------------------------------------
(* searchRegions(query, municipalities, places): the synchronous search     *)
(* elections.ts:445-465.  Texts are lists of characters.                     *)

\* c.toLowerCase() on the letters explored
Lower(c) == CASE c = "A" -> "a" [] c = "B" -> "b" [] OTHER -> c

\* text.toLowerCase()
ToLowerCase(text) == [i \in 1..Len(text) |-> Lower(text[i])]

\* text.includes(part)
StringIncludes(text, part) ==
    \E o \in 0..(Len(text) - Len(part)) : SubSeq(text, o + 1, o + Len(part)) = part

\* list.slice(0, n)
SliceTo(list, n) == SubSeq(list, 1, IF n < Len(list) THEN n ELSE Len(list))

MIN_QUERY_LENGTH == 2
SEARCH_LIMIT == 10

\* a defect: an entity whose name is the query goes first
SearchRegions_ExactFirst(q, muns, pls) ==
    IF Len(q) = 0 \/ Len(q) < MIN_QUERY_LENGTH THEN << >>
    ELSE LET lowerQuery == ToLowerCase(q)
             Match(f) == StringIncludes(ToLowerCase(f.properties.name), lowerQuery)
             Exact(f) == ToLowerCase(f.properties.name) = lowerQuery
             all == SelectSeq(muns, Match) \o SelectSeq(pls, Match)
         IN SliceTo(SelectSeq(all, Exact) \o SelectSeq(all, LAMBDA f : ~Exact(f)),
                    SEARCH_LIMIT)

\* a defect: the result is not truncated
SearchRegions_Unlimited(q, muns, pls) ==
    IF Len(q) = 0 \/ Len(q) < MIN_QUERY_LENGTH THEN << >>
    ELSE LET lowerQuery == ToLowerCase(q)
             Match(f) == StringIncludes(ToLowerCase(f.properties.name), lowerQuery)
         IN SelectSeq(muns, Match) \o SelectSeq(pls, Match)

\* elections.ts:452-464
SearchRegions(q, muns, pls) ==
    IF Len(q) = 0 \/ Len(q) < MIN_QUERY_LENGTH THEN << >>
    ELSE LET lowerQuery == ToLowerCase(q)
             Match(f) == StringIncludes(ToLowerCase(f.properties.name), lowerQuery)
         IN SliceTo(SelectSeq(muns, Match) \o SelectSeq(pls, Match), SEARCH_LIMIT)

\* The inputs explored

MaxMunicipalities == 7
MaxSettlements == 7
MaxQueryLen == 3
MaxLoads == 3

QueryChars == {"a", "A", "b", " "}

Queries == UNION { [1..n -> QueryChars] : n \in 0..MaxQueryLen }

\* "b ab", "Aba", "aB", "bb"
MunicipalityNames ==
    << <<"b", " ", "a", "b">>, <<"A", "b", "a">>, <<"a", "B">>, <<"b", "b">> >>

\* "Ab", "aab", "ba b", "abA"
PlaceNames ==
    << <<"A", "b">>, <<"a", "a", "b">>, <<"b", "a", " ", "b">>, <<"a", "b", "A">> >>

\* n features of one kind, named in turn from `names`, starting after `o`
FeatureList(kind, names, n, o) ==
    [i \in 1..n |-> [type |-> kind, id |-> i,
                     properties |-> [name |-> names[((i + o - 1) % Len(names)) + 1]]]]

InitSearch ==
    /\ IdleCache
    /\ IdleData
    /\ IdleRollup
    /\ IdleMerge
    /\ IdleStats
    /\ IdleApp
    /\ query \in Queries
    /\ \E n \in 0..MaxMunicipalities, o \in 0..1 :
            searchMunicipalities = FeatureList("municipality", MunicipalityNames, n, o)
    /\ \E n \in 0..MaxSettlements, o \in 0..1 :
            searchPlaces = FeatureList("settlement", PlaceNames, n, o)
    /\ searchResults = << >>

Search ==
    /\ phase = "idle"
    /\ searchResults' = SearchRegions(query, searchMunicipalities, searchPlaces)
    /\ phase' = "searched"
    /\ UNCHANGED <<query, searchMunicipalities, searchPlaces, fullData, request, processed>>

NextSearch ==
    Search /\ UNCHANGED <<cacheVars, rollupVars, mergeVars, statsVars, appVars>>

SpecSearch == InitSearch /\ [][NextSearch]_vars

-----------------------------------------------------------------------------
(* Claims about the search *)

Searched == phase = "searched"

RECURSIVE TrimStart(_)
TrimStart(text) ==
    IF text # << >> /\ Head(text) = " " THEN TrimStart(Tail(text)) ELSE text

RECURSIVE TrimEnd(_)
TrimEnd(text) ==
    IF text # << >> /\ text[Len(text)] = " "
        THEN TrimEnd(SubSeq(text, 1, Len(text) - 1))
        ELSE text

\* the text without its surrounding whitespace
Trimmed(text) == TrimEnd(TrimStart(text))

\* C21: the search returns the empty list whenever the query, trimmed of
\* surrounding whitespace, has fewer than 2 characters.
C21_ShortTrimmedQueryIsEmpty ==
    (Searched /\ Len(Trimmed(query)) < 2) => searchResults = << >>

\* the name contains the query as a substring, letter case ignored
ContainsIgnoringCase(name, q) ==
    \E o \in 0..(Len(name) - Len(q)) : \A i \in 1..Len(q) : Lower(name[o + i]) = Lower(q[i])

MatchingMunicipalities ==
    { m \in 1..Len(searchMunicipalities) :
        ContainsIgnoringCase(searchMunicipalities[m].properties.name, query) }

MatchingPlaces ==
    { p \in 1..Len(searchPlaces) :
        ContainsIgnoringCase(searchPlaces[p].properties.name, query) }

\* the element of S with exactly n smaller elements of S
NthOf(S, n) == CHOOSE x \in S : Cardinality({ y \in S : y < x }) = n

\* C22: for a query of at least 2 characters the result is the first 10
\* elements of: the municipalities whose name contains the query (case
\* ignored) in input order, then the settlements whose name does, in input
\* order.  It has at most 10 entries and no settlement before a municipality.
C22_FirstTenMunicipalitiesThenPlaces ==
    (Searched /\ Len(query) >= 2) =>
        LET nm == Cardinality(MatchingMunicipalities)
            np == Cardinality(MatchingPlaces)
        IN /\ Len(searchResults) = IF nm + np < 10 THEN nm + np ELSE 10
           /\ \A j \in 1..Len(searchResults) :
                searchResults[j] =
                    IF j <= nm
                        THEN searchMunicipalities[NthOf(MatchingMunicipalities, j - 1)]
                        ELSE searchPlaces[NthOf(MatchingPlaces, j - nm - 1)]
           /\ \A j, k \in 1..Len(searchResults) :
                (searchResults[j].type = "settlement" /\ searchResults[k].type = "municipality")
                    => k < j

C22_Witness ==
    /\ Searched
    /\ Cardinality(MatchingMunicipalities) + Cardinality(MatchingPlaces) > 10
    /\ Cardinality(MatchingMunicipalities) < Len(searchMunicipalities)
    /\ Len(searchResults) = 10
    /\ searchResults[1].type = "municipality"
    /\ searchResults[10].type = "settlement"

\* the name of the result is the query, letter case ignored
IsExactMatch(f) == ToLowerCase(f.properties.name) = ToLowerCase(query)

InputRank(f) == IF f.type = "municipality" THEN f.id ELSE Len(searchMunicipalities) + f.id

-----------------------------------------------------------------------------
(* The application's data loading (App.tsx:643-710) and region selection *)

DefaultElections == << "2024-10-27-ns" >>

\* the selections the election selector may hand to onElectionChange
ElectionChoices ==
    { << "2024-10-27-ns" >>, << "2024-06-09-ns" >>, << "2024-06-09-ns", "2024-10-27-ns" >> }

\* aggregateSettlementsToMunicipalities(...) for the election: the features
\* with the election's data
LoadedMunicipalities(electionId) ==
    << [properties |-> [name |-> "M"], electionData |-> electionId] >>

\* mergePlacesData(...) for the election
LoadedPlaces(electionId) ==
    << [properties |-> [ekatte |-> "00014", name |-> "P"], electionData |-> electionId] >>

\* newDataMap after Promise.all
NewDataMap(elections) ==
    [e \in { elections[i] : i \in 1..Len(elections) } |->
        [municipalities |-> LoadedMunicipalities(e), places |-> LoadedPlaces(e)]]

\* 'ekatte' in selectedRegion.properties
IsSettlement(region) == "ekatte" \in DOMAIN region.properties

\* Array.prototype.find: the first element that satisfies Test, or undefined
Find(list, Test(_)) ==
    IF \E i \in 1..Len(list) : Test(list[i])
        THEN list[CHOOSE i \in 1..Len(list) :
                    Test(list[i]) /\ \A j \in 1..(i - 1) : ~Test(list[j])]
        ELSE Undef

\* the selectedRegion the effect's closure holds: the one of the render the
\* effect was created in
RegionToRefresh(load, current) == load.region

\* App.tsx:689-700  the selection after the refresh
RefreshSelection(region, current, loadedMuns, loadedPlaces) ==
    IF region = Null THEN current
    ELSE LET updated ==
                IF IsSettlement(region)
                    THEN Find(loadedPlaces,
                              LAMBDA p : p.properties.ekatte = region.properties.ekatte)
                    ELSE Find(loadedMuns,
                              LAMBDA m : m.properties.name = region.properties.name)
         IN IF updated # Undef THEN updated ELSE current

\* a load started by the effect: its closure and its progress
NewLoad == [elections |-> selectedElections', region |-> selectedRegion, status |-> "pending"]

\* the first render and its effect: loadData() has run up to its first await
InitApp ==
    /\ IdleCache
    /\ IdleData
    /\ IdleRollup
    /\ IdleMerge
    /\ IdleStats
    /\ IdleSearch
    /\ selectedElections = DefaultElections
    /\ electionsData = << >>
    /\ appMunicipalities = << >>
    /\ appPlaces = << >>
    /\ loading = TRUE
    /\ selectedRegion = Null
    /\ loads = << [elections |-> DefaultElections, region |-> Null, status |-> "pending"] >>

\* onElectionChange(ids): setSelectedElections, then the effect of the next
\* render calls loadData(), which runs to its first await
SelectElections(ids) ==
    /\ Len(loads) < MaxLoads
    /\ selectedElections' = ids
    /\ loads' = Append(loads, NewLoad)
    /\ loading' = TRUE
    /\ UNCHANGED <<electionsData, appMunicipalities, appPlaces, selectedRegion>>

\* the last await of loadData() l returns: from setElectionsData to finally
LoadCompletes(l) ==
    LET load == loads[l]
        newDataMap == NewDataMap(load.elections)
        primaryElectionId == load.elections[1]
        loadedMuns == newDataMap[primaryElectionId].municipalities
        loadedPlaces == newDataMap[primaryElectionId].places
    IN /\ load.status = "pending"
       /\ electionsData' = newDataMap
       /\ appMunicipalities' = loadedMuns
       /\ appPlaces' = loadedPlaces
       /\ selectedRegion' = RefreshSelection(RegionToRefresh(load, selectedRegion),
                                             selectedRegion, loadedMuns, loadedPlaces)
       /\ loading' = FALSE
       /\ loads' = [loads EXCEPT ![l].status = "done"]
       /\ UNCHANGED selectedElections

\* an await of loadData() l throws: catch, then finally
LoadFails(l) ==
    /\ loads[l].status = "pending"
    /\ loading' = FALSE
    /\ loads' = [loads EXCEPT ![l].status = "failed"]
    /\ UNCHANGED <<selectedElections, electionsData, appMunicipalities, appPlaces, selectedRegion>>

\* handleRegionSelect / handleSearchSelect with a feature of the displayed data
SelectRegion(data) ==
    /\ selectedRegion' = data
    /\ UNCHANGED <<selectedElections, electionsData, appMunicipalities, appPlaces, loading, loads>>

\* handleCloseSheet
CloseSheet ==
    /\ selectedRegion # Null
    /\ selectedRegion' = Null
    /\ UNCHANGED <<selectedElections, electionsData, appMunicipalities, appPlaces, loading, loads>>

DisplayedFeatures ==
    { appMunicipalities[i] : i \in 1..Len(appMunicipalities) }
        \cup { appPlaces[i] : i \in 1..Len(appPlaces) }

NextApp ==
    \/ \E ids \in ElectionChoices :
            SelectElections(ids) /\ UNCHANGED <<cacheVars, dataVars, rollupVars, mergeVars, statsVars, searchVars>>
    \/ \E l \in 1..Len(loads) :
            LoadCompletes(l) /\ UNCHANGED <<cacheVars, dataVars, rollupVars, mergeVars, statsVars, searchVars>>
    \/ \E l \in 1..Len(loads) :
            LoadFails(l) /\ UNCHANGED <<cacheVars, dataVars, rollupVars, mergeVars, statsVars, searchVars>>
    \/ \E data \in DisplayedFeatures :
            SelectRegion(data) /\ UNCHANGED <<cacheVars, dataVars, rollupVars, mergeVars, statsVars, searchVars>>
    \/ CloseSheet /\ UNCHANGED <<cacheVars, dataVars, rollupVars, mergeVars, statsVars, searchVars>>

SpecApp == InitApp /\ [][NextApp]_vars

-----------------------------------------------------------------------------
(* Claims about the data loading *)

LatestLoad == loads[Len(loads)]

\* C29: once all loads have completed, the displayed electionsData,
\* municipalities and places are those of the most recently selected
\* elections, and the loading indicator is not cleared while the latest load
\* is still pending.
C29_LatestSelectionWins ==
    /\ ( /\ \A l \in 1..Len(loads) : loads[l].status # "pending"
         /\ LatestLoad.status = "done" )
       => ( /\ electionsData = NewDataMap(selectedElections)
            /\ appMunicipalities = LoadedMunicipalities(selectedElections[1])
            /\ appPlaces = LoadedPlaces(selectedElections[1]) )
    /\ LatestLoad.status = "pending" => loading = TRUE

\* what identifies the selected region: nothing, a settlement code or a
\* municipality name
RegionIdentity(region) ==
    IF region = Null THEN << >>
    ELSE IF IsSettlement(region) THEN << "ekatte", region.properties.ekatte >>
    ELSE << "name", region.properties.name >>

\* C30: a completing load does not change which region is selected: the
\* selection stays the user's latest choice (none after the sheet was
\* closed), at most refreshed with the new data.
C30_LoadKeepsLatestSelection ==
    [][ (\E l \in 1..Len(loads) : loads[l].status = "pending" /\ loads'[l].status = "done")
            => RegionIdentity(selectedRegion') = RegionIdentity(selectedRegion) ]_vars

====
